---- MODULE Spec2Model ----
(***************************************************************************)
(* A model of pyexchange/kucoin.py: the value types Order and Trade and    *)
(* the KucoinApi adapter over the external kucoin client.                  *)
(*                                                                         *)
(* Python values are modelled as follows.                                  *)
(*  - A str is a sequence of one-character strings, so that                *)
(*    pair.split("-") is computed, not assumed.                            *)
(*  - A number read from the exchange (a JSON number; str(number) is its   *)
(*    decimal text) is [mant, exp], standing for mant * 10^-exp.           *)
(*  - A Wad (pymaker's 18-decimal fixed point number, an unbounded int     *)
(*    counting units of 10^-18) is its little-endian sequence of base-1000 *)
(*    limbs without leading zero limbs, so that 18-digit arithmetic fits   *)
(*    the model checker's integers.                                        *)
(*  - An argument whose type the code asserts is [t, v]: its Python type   *)
(*    and its value.                                                       *)
(***************************************************************************)
EXTENDS Integers, Sequences, FiniteSets

(***************************************************************************)
(* Bounds of the model.                                                    *)
(***************************************************************************)
\* longest sell-side and buy-side list of an active-orders response
MaxOrders == 3
\* longest list of records of a trade-history response
MaxTrades == 2
\* largest page number a caller passes
MaxPage == 3

(***************************************************************************)
(* pymaker.Wad, as imported by kucoin.py.                                  *)
(***************************************************************************)
\* base of one limb of a Wad's integer value
LimbBase == 1000
\* a Wad counts units of 10^-WadDecimals
WadDecimals == 18
\* limbs that hold the WadDecimals fractional digits
WadFracLimbs == WadDecimals \div 3

RECURSIVE Pow10(_)
Pow10(n) == IF n = 0 THEN 1 ELSE 10 * Pow10(n - 1)

\* the limb at (1-based, little-endian) position i; 0 past the end
Limb(w, i) == IF i >= 1 /\ i <= Len(w) THEN w[i] ELSE 0

RECURSIVE Normalize(_)
\* drop the leading (most significant) zero limbs
Normalize(w) ==
    IF w = <<>> THEN <<>>
    ELSE IF w[Len(w)] = 0 THEN Normalize(SubSeq(w, 1, Len(w) - 1))
    ELSE w

RECURSIVE NatToLimbs(_)
NatToLimbs(n) ==
    IF n = 0 THEN <<>> ELSE <<n % LimbBase>> \o NatToLimbs(n \div LimbBase)

RECURSIVE ConvTerm(_, _, _, _)
\* sum over i in 1..upto of a[i] * b[k + 1 - i]
ConvTerm(a, b, k, upto) ==
    IF upto = 0 THEN 0
    ELSE Limb(a, upto) * Limb(b, k + 1 - upto) + ConvTerm(a, b, k, upto - 1)

RECURSIVE Carry(_, _, _, _, _)
\* limbs k.. of the product a * b, given the carry into limb k
Carry(a, b, k, last, carry) ==
    IF k > last
    THEN NatToLimbs(carry)
    ELSE LET t == ConvTerm(a, b, k, k) + carry
         IN  <<t % LimbBase>> \o Carry(a, b, k + 1, last, t \div LimbBase)

\* the product of two unbounded naturals
MulLimbs(a, b) == Normalize(Carry(a, b, 1, Len(a) + Len(b), 0))

\* 10^n as limbs
PowTenLimbs(n) == [i \in 1..(n \div 3) |-> 0] \o <<Pow10(n % 3)>>

\* the limbs from position n + 1 on: the value divided by LimbBase^n, rounded down
DropLimbs(w, n) == IF Len(w) <= n THEN <<>> ELSE SubSeq(w, n + 1, Len(w))

\* Wad.from_number(number): Decimal(str(number)) * 10**18, rounded down to an int
WadFromNumber(n) ==
    IF n.exp <= WadDecimals
    THEN MulLimbs(NatToLimbs(n.mant), PowTenLimbs(WadDecimals - n.exp))
    ELSE NatToLimbs(n.mant \div Pow10(n.exp - WadDecimals))

\* Wad.__mul__: self.value * other.value / 10**18, rounded down
WadMul(a, b) == Normalize(DropLimbs(MulLimbs(a, b), WadFracLimbs))

\* the decimal digit of weight 10^d of a Wad's integer value
Digit(w, d) == (Limb(w, d \div 3 + 1) \div Pow10(d % 3)) % 10

RECURSIVE DigitsValue(_, _, _)
\* the number written by the n digits of weights 10^lo .. 10^(lo+n-1)
DigitsValue(w, lo, n) ==
    IF n = 0 THEN 0 ELSE Digit(w, lo) + 10 * DigitsValue(w, lo + 1, n - 1)

(***************************************************************************)
(* Python values.                                                          *)
(***************************************************************************)
PyStr(s) == [t |-> "str", v |-> s]
PyInt(n) == [t |-> "int", v |-> n]
PyNone == [t |-> "NoneType", v |-> 0]
IsStr(x) == x.t = "str"
IsInt(x) == x.t = "int"

\* list[i] with Python's zero-based index
At(list, i) == list[i + 1]

\* int(float(x)) for a non-negative number: the digits after the point are cut
IntOfFloat(n) == n.mant \div Pow10(n.exp)

Dash == "-"

RECURSIVE Split(_)
\* s.split("-"): the pieces between the dashes, empty pieces kept
Split(s) ==
    IF \A i \in 1..Len(s) : s[i] # Dash
    THEN <<s>>
    ELSE LET i == CHOOSE j \in 1..Len(s) :
                      s[j] = Dash /\ \A k \in 1..(j - 1) : s[k] # Dash
         IN  <<SubSeq(s, 1, i - 1)>> \o Split(SubSeq(s, i + 1, Len(s)))

(***************************************************************************)
(* class Order                                                             *)
(***************************************************************************)
Order(order_id, pair, is_sell, price, amount) ==
    [order_id |-> order_id, pair |-> pair, is_sell |-> is_sell,
     price |-> price, amount |-> amount]

\* remaining_buy_amount with its two branches exchanged
remaining_buy_amount_swapped(self) ==
    IF self.is_sell THEN self.amount ELSE WadMul(self.amount, self.price)

remaining_buy_amount(self) ==
    IF self.is_sell THEN WadMul(self.amount, self.price) ELSE self.amount

remaining_sell_amount(self) ==
    IF self.is_sell THEN self.amount ELSE WadMul(self.amount, self.price)

Order_from_list(item, pair, sell) ==
    Order(At(item, 5), pair, sell,
          WadFromNumber(At(item, 2)), WadFromNumber(At(item, 3)))

(***************************************************************************)
(* class Trade                                                             *)
(***************************************************************************)
Trade(trade_id, order_id, timestamp, pair, is_sell, price, amount) ==
    [trade_id |-> trade_id, order_id |-> order_id, timestamp |-> timestamp,
     pair |-> pair, is_sell |-> is_sell, price |-> price, amount |-> amount]

Trade_from_dict(pair, trade) ==
    Trade(trade.id, trade.orderOid, IntOfFloat(trade.createdAt) \div 1000,
          pair, trade.direction = "SELL",
          WadFromNumber(trade.dealPrice), WadFromNumber(trade.amount))

\* from_list reading the amount one position too far, from the deal value
Trade_from_list_shifted(pair, trade) ==
    Trade(PyNone, At(trade, 5), IntOfFloat(At(trade, 0)) \div 1000,
          pair, At(trade, 1) = "SELL",
          WadFromNumber(At(trade, 2)), WadFromNumber(At(trade, 4)))

Trade_from_list(pair, trade) ==
    Trade(PyNone, At(trade, 5), IntOfFloat(At(trade, 0)) \div 1000,
          pair, At(trade, 1) = "SELL",
          WadFromNumber(At(trade, 2)), WadFromNumber(At(trade, 3)))

\* Trade.__eq__
Trade_eq(self, other) ==
    /\ self.trade_id = other.trade_id
    /\ self.order_id = other.order_id
    /\ self.timestamp = other.timestamp
    /\ self.pair = other.pair
    /\ self.is_sell = other.is_sell
    /\ self.price = other.price
    /\ self.amount = other.amount

(***************************************************************************)
(* Asset names, pairs and the numbers the model draws its inputs from.     *)
(***************************************************************************)
ETH == <<"E", "T", "H">>
USDT == <<"U", "S", "D", "T">>
MKR == <<"M", "K", "R">>
BTC == <<"B", "T", "C">>
DAI == <<"D", "A", "I">>
\* an asset the exchange lists and the adapter has no precision for
XRP == <<"X", "R", "P">>

PairOf(base, quote) == base \o <<Dash>> \o quote

\* the pair strings a caller passes: supported pairs, a pair with an unknown
\* base, one with an unknown quote, one without a dash, and the empty string
Pairs ==
    {PairOf(ETH, DAI), PairOf(USDT, DAI), PairOf(MKR, ETH), PairOf(BTC, USDT),
     PairOf(XRP, DAI), PairOf(ETH, XRP), ETH \o DAI, <<>>}

\* what a caller may pass as pair: a str, or a value that is no str
PairArgs == {PyStr(p) : p \in Pairs} \cup {PyNone}

Num(mant, exp) == [mant |-> mant, exp |-> exp]

\* prices and amounts as the exchange reports them:
\* 25.0005, 0.0614088, 0.333333333 (its square has more than 18 decimals), 0
Numbers == {Num(250005, 4), Num(614088, 7), Num(333333333, 9), Num(0, 0)}

\* millisecond timestamps: 1544564 ms, 1544999.5 ms, 2000 ms (small, to fit the
\* model checker's integers; the code treats a timestamp of any size alike)
Timestamps == {Num(1544564, 0), Num(15449995, 1), Num(2000, 0)}

OrderIds == {PyStr(<<"o", "1">>), PyStr(<<"o", "2">>)}

VARIABLES
    \* KucoinApi: the last method called, its arguments, the requests it made
    \* to the external client, the client's answer, and what it gave the caller
    op, args, requests, response, outcome,
    \* an Order under construction and the properties read from it
    item, sell, order, buy_amount, sell_amount,
    \* one trade as the exchange holds it, and its two mappings
    underlying, keyed, positional,
    \* the pair the Order or the Trade is built for
    pair

apiVars == <<op, args, requests, response, outcome>>
orderVars == <<item, sell, order, buy_amount, sell_amount>>
tradeVars == <<underlying, keyed, positional>>
vars == <<op, args, requests, response, outcome,
          item, sell, order, buy_amount, sell_amount,
          underlying, keyed, positional, pair>>

Unset == [set |-> FALSE, v |-> <<>>]
Set(x) == [set |-> TRUE, v |-> x]

NoResponse == [kind |-> "none", error |-> "", value |-> <<>>]
RemoteOk(v) == [kind |-> "ok", error |-> "", value |-> v]
RemoteRaise(e) == [kind |-> "raise", error |-> e, value |-> <<>>]
Raise(e) == [kind |-> "raise", error |-> e, value |-> <<>>]
Return(v) == [kind |-> "return", error |-> "", value |-> v]

ApiIdle ==
    /\ op = "idle"
    /\ args = <<>>
    /\ requests = <<>>
    /\ response = NoResponse
    /\ outcome = Return(<<>>)

OrderIdle ==
    /\ item = <<>>
    /\ sell = FALSE
    /\ order = Unset
    /\ buy_amount = Unset
    /\ sell_amount = Unset

TradeIdle ==
    /\ underlying = <<>>
    /\ keyed = Unset
    /\ positional = Unset

(***************************************************************************)
(* Reading an Order.                                                       *)
(***************************************************************************)
\* an entry of an active-orders list:
\* [timestamp, type, price, amount, dealAmount, orderOid]
Items ==
    {<<ts, dir, price, amount, Num(0, 0), oid>> :
        ts \in {Num(2000, 0)}, dir \in {"SELL", "BUY"},
        price \in Numbers, amount \in Numbers, oid \in OrderIds}

InitOrder ==
    /\ ApiIdle
    /\ TradeIdle
    /\ item \in Items
    /\ sell \in BOOLEAN
    /\ pair \in {PairOf(ETH, DAI)}
    /\ order = Unset
    /\ buy_amount = Unset
    /\ sell_amount = Unset

OrderFromList ==
    /\ ~order.set
    /\ order' = Set(Order_from_list(item, pair, sell))
    /\ UNCHANGED <<item, sell, buy_amount, sell_amount, pair, apiVars, tradeVars>>

ReadRemainingBuyAmount ==
    /\ order.set
    /\ buy_amount' = Set(remaining_buy_amount(order.v))
    /\ UNCHANGED <<item, sell, order, sell_amount, pair, apiVars, tradeVars>>

ReadRemainingSellAmount ==
    /\ order.set
    /\ sell_amount' = Set(remaining_sell_amount(order.v))
    /\ UNCHANGED <<item, sell, order, buy_amount, pair, apiVars, tradeVars>>

NextOrder ==
    \/ OrderFromList
    \/ ReadRemainingBuyAmount
    \/ ReadRemainingSellAmount

SpecOrder == InitOrder /\ [][NextOrder]_vars

(***************************************************************************)
(* Mapping a Trade along the keyed and the positional path.                *)
(***************************************************************************)
\* one trade as the exchange holds it
Underlyings ==
    [id : {PyInt(7)}, orderOid : OrderIds, createdAt : Timestamps,
     direction : {"SELL", "BUY"}, dealPrice : Numbers, amount : Numbers,
     dealValue : {Num(15352507, 7)}]

\* the trade as an entry of 'datas' of the dealt-orders response
KeyedRecord(u) == u

\* the trade as an entry of the recent-orders response:
\* [1544564526000, 'SELL', 25.0005, 0.0614088, 1.5352507, '5c102f2d335e7e08134edd77']
PositionalRecord(u) ==
    <<u.createdAt, u.direction, u.dealPrice, u.amount, u.dealValue, u.orderOid>>

InitTrade ==
    /\ ApiIdle
    /\ OrderIdle
    /\ underlying \in Underlyings
    /\ pair \in {PairOf(ETH, DAI), PairOf(BTC, USDT)}
    /\ keyed = Unset
    /\ positional = Unset

FromDict ==
    /\ ~keyed.set
    /\ keyed' = Set(Trade_from_dict(pair, KeyedRecord(underlying)))
    /\ UNCHANGED <<underlying, positional, pair, apiVars, orderVars>>

FromList ==
    /\ ~positional.set
    /\ positional' = Set(Trade_from_list(pair, PositionalRecord(underlying)))
    /\ UNCHANGED <<underlying, keyed, pair, apiVars, orderVars>>

NextTrade ==
    \/ FromDict
    \/ FromList

SpecTrade == InitTrade /\ [][NextTrade]_vars

(***************************************************************************)
(* KucoinApi                                                               *)
(***************************************************************************)
SIDE_SELL == "SELL"
SIDE_BUY == "BUY"

\* _get_precision falling back to a default format for a coin it does not know
_get_precision_default(coin) ==
    CASE coin = ETH -> [raised |-> FALSE, places |-> 7]
      [] coin = USDT -> [raised |-> FALSE, places |-> 6]
      [] coin = MKR -> [raised |-> FALSE, places |-> 4]
      [] coin = BTC -> [raised |-> FALSE, places |-> 7]
      [] coin = DAI -> [raised |-> FALSE, places |-> 4]
      [] OTHER -> [raised |-> FALSE, places |-> 8]

\* KucoinApi._get_precision: the format of the coin, or KeyError
_get_precision(coin) ==
    CASE coin = ETH -> [raised |-> FALSE, places |-> 7]
      [] coin = USDT -> [raised |-> FALSE, places |-> 6]
      [] coin = MKR -> [raised |-> FALSE, places |-> 4]
      [] coin = BTC -> [raised |-> FALSE, places |-> 7]
      [] coin = DAI -> [raised |-> FALSE, places |-> 4]
      [] OTHER -> [raised |-> TRUE, places |-> 0]

\* the text "<whole>.<frac>" with frac written in exactly `places` digits
Fixed(whole, frac, places) == [whole |-> whole, frac |-> frac, places |-> places]

\* the next text up in the last place
FixedUp(f) ==
    IF f.frac + 1 = Pow10(f.places)
    THEN Fixed(f.whole + 1, 0, f.places)
    ELSE Fixed(f.whole, f.frac + 1, f.places)

\* the texts "%.<places>f" % float(wad) can be, for a Wad below 1000 and
\* 4 <= places <= 12.  float(wad) is the double nearest the Wad, less than
\* 10^6 units of 10^-18 away from it, and the format rounds that double to the
\* nearest text: the Wad's nearest text, except that a Wad within 10^6 units of
\* the midpoint of two texts may come out as either.
FormatFixed(wad, places) ==
    LET cut == WadDecimals - places
        down == Fixed(DigitsValue(wad, WadDecimals, 9),
                      DigitsValue(wad, cut, places), places)
        \* the digits cut off, without their last six
        rest == DigitsValue(wad, 6, cut - 6)
        half == 5 * Pow10(cut - 7)
    IN  IF rest < half - 1 THEN {down}
        ELSE IF rest > half THEN {FixedUp(down)}
        ELSE {down, FixedUp(down)}

\* the errors the external client raises
RemoteErrors == {"KucoinAPIException", "KucoinRequestException"}
RemoteFailures == {RemoteRaise(e) : e \in RemoteErrors}

\* answers the adapter hands through as they are
Payloads == {"payload1", "payload2"}
PassthroughResponses == {RemoteOk(v) : v \in Payloads} \cup RemoteFailures

Request(method, a) == [method |-> method, args |-> a]

\* one call of a method, from its entry to its return or raise: the adapter is
\* called synchronously, one call at a time
Invoke(name, a, reqs, resp, out) ==
    /\ op' = name
    /\ args' = a
    /\ requests' = reqs
    /\ response' = resp
    /\ outcome' = out
    /\ UNCHANGED <<orderVars, tradeVars, pair>>

\* assert(...) failed before any request
AssertionFailed(name, a) ==
    Invoke(name, a, <<>>, NoResponse, Raise("AssertionError"))

\* return self.client.<method>(...): the answer, or the error it raised
passthrough(resp) ==
    IF resp.kind = "raise" THEN Raise(resp.error) ELSE Return(resp.value)

get_markets ==
    /\ op = "idle"
    /\ \E resp \in PassthroughResponses :
        Invoke("get_markets", <<>>, <<Request("get_trading_markets", <<>>)>>,
               resp, passthrough(resp))

ticker ==
    /\ op = "idle"
    /\ \E p \in PairArgs :
        IF ~IsStr(p) THEN AssertionFailed("ticker", [pair |-> p])
        ELSE \E resp \in PassthroughResponses :
                Invoke("ticker", [pair |-> p], <<Request("get_tick", <<p>>)>>,
                       resp, passthrough(resp))

get_balances ==
    /\ op = "idle"
    /\ \E resp \in PassthroughResponses :
        Invoke("get_balances", <<>>, <<Request("get_all_balances", <<>>)>>,
               resp, passthrough(resp))

\* currencies and coins a caller asks the balance of, or a value that is no str
CoinArgs == {PyStr(DAI), PyStr(<<>>), PyNone}

get_fiat_balance ==
    /\ op = "idle"
    /\ \E fiat \in CoinArgs :
        IF ~IsStr(fiat) THEN AssertionFailed("get_fiat_balance", [fiat |-> fiat])
        ELSE \E resp \in PassthroughResponses :
                Invoke("get_fiat_balance", [fiat |-> fiat],
                       <<Request("get_total_balance", <<fiat>>)>>,
                       resp, passthrough(resp))

get_balance ==
    /\ op = "idle"
    /\ \E coin \in CoinArgs :
        IF ~IsStr(coin) THEN AssertionFailed("get_balance", [coin |-> coin])
        ELSE \E resp \in PassthroughResponses :
                Invoke("get_balance", [coin |-> coin],
                       <<Request("get_coin_balance", <<coin>>)>>,
                       resp, passthrough(resp))

get_user_info ==
    /\ op = "idle"
    /\ \E resp \in PassthroughResponses :
        Invoke("get_user_info", <<>>, <<Request("get_user", <<>>)>>,
               resp, passthrough(resp))

order_book ==
    /\ op = "idle"
    /\ \E p \in PairArgs, limit \in {PyNone, PyInt(10)} :
        LET a == [pair |-> p, limit |-> limit]
        IN  IF ~IsStr(p) THEN AssertionFailed("order_book", a)
            ELSE \E resp \in PassthroughResponses :
                    Invoke("order_book", a,
                           <<Request("get_order_book", <<p, limit>>)>>,
                           resp, passthrough(resp))

RECURSIVE SeqsUpTo(_, _)
\* the sequences over S of length at most n
SeqsUpTo(S, n) ==
    IF n = 0 THEN {<<>>}
    ELSE LET shorter == SeqsUpTo(S, n - 1)
         IN  shorter \cup {Append(q, x) : q \in {r \in shorter : Len(r) = n - 1}, x \in S}

\* entries of the active-orders lists of the exchange
OrderItems ==
    {<<Num(2000, 0), "SELL", Num(250005, 4), Num(614088, 7), Num(0, 0), PyStr(<<"o", "1">>)>>,
     <<Num(2000, 0), "BUY", Num(333333333, 9), Num(250005, 4), Num(0, 0), PyStr(<<"o", "2">>)>>}

\* the answers of client.get_active_orders(pair)
ActiveOrdersResponses ==
    {RemoteOk([SELL |-> s, BUY |-> b]) :
        s \in SeqsUpTo(OrderItems, MaxOrders), b \in SeqsUpTo(OrderItems, MaxOrders)}
    \cup RemoteFailures

\* get_orders also refusing the empty string
get_orders_precondition_nonempty(p) == IsStr(p) /\ p.v # <<>>

\* the type assertion of get_orders
get_orders_precondition(p) == IsStr(p)

\* get_orders with the buy side first
get_orders_result_buy_first(p, orders) ==
    LET sell_orders == [i \in 1..Len(orders.SELL) |->
                            Order_from_list(orders.SELL[i], p, TRUE)]
        buy_orders == [i \in 1..Len(orders.BUY) |->
                           Order_from_list(orders.BUY[i], p, FALSE)]
    IN  buy_orders \o sell_orders

\* what get_orders returns for the client's answer
get_orders_result(p, orders) ==
    LET sell_orders == [i \in 1..Len(orders.SELL) |->
                            Order_from_list(orders.SELL[i], p, TRUE)]
        buy_orders == [i \in 1..Len(orders.BUY) |->
                           Order_from_list(orders.BUY[i], p, FALSE)]
    IN  sell_orders \o buy_orders

get_orders ==
    /\ op = "idle"
    /\ \E p \in PairArgs :
        IF ~get_orders_precondition(p) THEN AssertionFailed("get_orders", [pair |-> p])
        ELSE \E resp \in ActiveOrdersResponses :
                Invoke("get_orders", [pair |-> p],
                       <<Request("get_active_orders", <<p>>)>>, resp,
                       IF resp.kind = "raise" THEN Raise(resp.error)
                       ELSE Return(get_orders_result(p.v, resp.value)))

\* prices and amounts a caller places orders with:
\* 80.2222222, 0.00005 (midway between 0.0000 and 0.0001), 0.99999999, 25
PlacedNumbers == {Num(802222222, 7), Num(5, 5), Num(99999999, 8), Num(25, 0)}
PlacedWads == {WadFromNumber(n) : n \in PlacedNumbers}

\* the answers of client.create_order(...)
CreateOrderResponses ==
    {RemoteOk([orderOid |-> oid]) : oid \in OrderIds} \cup RemoteFailures

\* the price formatted as the base asset is
price_format_base(coins) == _get_precision(At(coins, 0))

\* the format of the price: that of coins[1]
price_format(coins) == _get_precision(At(coins, 1))

\* the format of the amount: that of coins[0]
amount_format(coins) == _get_precision(At(coins, 0))

\* place_order wrapping the client's error in one of its own
place_order_result_wrapped(resp) ==
    IF resp.kind = "raise" THEN Raise("OrderPlacementError")
    ELSE Return(resp.value.orderOid)

\* what place_order gives the caller for the client's answer
place_order_result(resp) ==
    IF resp.kind = "raise" THEN Raise(resp.error)
    ELSE Return(resp.value.orderOid)

place_order ==
    /\ op = "idle"
    /\ \E p \in PairArgs, is_sell \in BOOLEAN, price \in PlacedWads, amount \in PlacedWads :
        LET a == [pair |-> p, is_sell |-> is_sell, price |-> price, amount |-> amount]
            side == IF is_sell THEN SIDE_SELL ELSE SIDE_BUY
            failed(e) == Invoke("place_order", a, <<>>, NoResponse, Raise(e))
        IN  IF ~IsStr(p) THEN failed("AssertionError")
            ELSE LET coins == Split(p.v)
                 IN  IF Len(coins) < 2 THEN failed("IndexError")
                     ELSE IF price_format(coins).raised THEN failed("KeyError")
                     ELSE IF amount_format(coins).raised THEN failed("KeyError")
                     ELSE \E price_text \in FormatFixed(price, price_format(coins).places),
                             amount_text \in FormatFixed(amount, amount_format(coins).places),
                             resp \in CreateOrderResponses :
                            Invoke("place_order", a,
                                   <<Request("create_order",
                                             <<p, side, price_text, amount_text>>)>>,
                                   resp, place_order_result(resp))

\* cancel_order without its try/except
cancel_order_result_propagating(resp) ==
    IF resp.kind = "raise" THEN Raise(resp.error) ELSE Return(TRUE)

\* what cancel_order returns for the client's answer
cancel_order_result(resp) ==
    IF resp.kind = "raise" THEN Return(FALSE) ELSE Return(TRUE)

cancel_order ==
    /\ op = "idle"
    /\ \E order_id \in OrderIds \cup {PyNone}, is_sell \in BOOLEAN, p \in PairArgs :
        LET a == [order_id |-> order_id, is_sell |-> is_sell, pair |-> p]
            side == IF is_sell THEN SIDE_SELL ELSE SIDE_BUY
        IN  IF ~IsStr(order_id) \/ ~IsStr(p) THEN AssertionFailed("cancel_order", a)
            ELSE \E resp \in PassthroughResponses :
                    Invoke("cancel_order", a,
                           <<Request("cancel_order", <<order_id, side, p>>)>>,
                           resp, cancel_order_result(resp))

\* the trades of the exchange
Trades ==
    {[id |-> PyInt(7), orderOid |-> PyStr(<<"o", "1">>), createdAt |-> Num(1544564, 0),
      direction |-> "SELL", dealPrice |-> Num(250005, 4), amount |-> Num(614088, 7),
      dealValue |-> Num(15352507, 7)],
     [id |-> PyInt(8), orderOid |-> PyStr(<<"o", "2">>), createdAt |-> Num(15449995, 1),
      direction |-> "BUY", dealPrice |-> Num(333333333, 9), amount |-> Num(250005, 4),
      dealValue |-> Num(83335, 4)]}

\* the answers of client.get_symbol_dealt_orders(pair, page, limit)
DealtOrdersResponses ==
    {RemoteOk([datas |-> d]) : d \in SeqsUpTo({KeyedRecord(u) : u \in Trades}, MaxTrades)}
    \cup RemoteFailures

\* the answers of client.get_recent_orders(pair, limit)
RecentOrdersResponses ==
    {RemoteOk(d) : d \in SeqsUpTo({PositionalRecord(u) : u \in Trades}, MaxTrades)}
    \cup RemoteFailures

\* page numbers a caller passes, or a value that is no int
PageArgs == {PyInt(n) : n \in 0..MaxPage} \cup {PyNone}

\* get_trades passing the caller's one-based page number on
get_trades_request_one_based(p, page_number) ==
    Request("get_symbol_dealt_orders", <<p, page_number, 100>>)

\* the request get_trades makes
get_trades_request(p, page_number) ==
    Request("get_symbol_dealt_orders", <<p, page_number - 1, 100>>)

get_trades ==
    /\ op = "idle"
    /\ \E p \in PairArgs, page_number \in PageArgs :
        LET a == [pair |-> p, page_number |-> page_number]
            trades(datas) == [i \in 1..Len(datas) |-> Trade_from_dict(p.v, datas[i])]
        IN  IF ~IsStr(p) \/ ~IsInt(page_number) THEN AssertionFailed("get_trades", a)
            ELSE \E resp \in DealtOrdersResponses :
                    Invoke("get_trades", a, <<get_trades_request(p, page_number.v)>>, resp,
                           IF resp.kind = "raise" THEN Raise(resp.error)
                           ELSE Return(trades(resp.value.datas)))

\* get_all_trades accepting any page from 1 on
get_all_trades_precondition_from_one(page_number) ==
    IsInt(page_number) /\ page_number.v >= 1

\* assert(page_number == 1)
get_all_trades_precondition(page_number) == IsInt(page_number) /\ page_number.v = 1

get_all_trades ==
    /\ op = "idle"
    /\ \E p \in PairArgs, page_number \in PageArgs :
        LET a == [pair |-> p, page_number |-> page_number]
            trades(result) == [i \in 1..Len(result) |-> Trade_from_list(p.v, result[i])]
        IN  IF ~IsStr(p) \/ ~get_all_trades_precondition(page_number)
            THEN AssertionFailed("get_all_trades", a)
            ELSE \E resp \in RecentOrdersResponses :
                    Invoke("get_all_trades", a,
                           <<Request("get_recent_orders", <<p, 50>>)>>, resp,
                           IF resp.kind = "raise" THEN Raise(resp.error)
                           ELSE Return(trades(resp.value)))

\* the caller has taken what the call gave it; the adapter keeps nothing of it
Returned ==
    /\ op # "idle"
    /\ op' = "idle"
    /\ args' = <<>>
    /\ requests' = <<>>
    /\ response' = NoResponse
    /\ outcome' = Return(<<>>)
    /\ UNCHANGED <<orderVars, tradeVars, pair>>

\* the state after KucoinApi.__init__
Init ==
    /\ ApiIdle
    /\ OrderIdle
    /\ TradeIdle
    /\ pair = <<>>

Next ==
    \/ get_markets
    \/ ticker
    \/ get_balances
    \/ get_fiat_balance
    \/ get_balance
    \/ get_user_info
    \/ order_book
    \/ get_orders
    \/ place_order
    \/ cancel_order
    \/ get_trades
    \/ get_all_trades
    \/ Returned

Spec == Init /\ [][Next]_vars

(***************************************************************************)
(* The claims.                                                             *)
(***************************************************************************)

\* C1: for every Order, a sell order's remaining_buy_amount is amount * price
\* (the Wad product) and its remaining_sell_amount is amount; a buy order's
\* remaining_buy_amount is amount and its remaining_sell_amount is
\* amount * price.
C1_RemainingAmounts ==
    /\ buy_amount.set /\ order.v.is_sell
          => buy_amount.v = WadMul(order.v.amount, order.v.price)
    /\ sell_amount.set /\ order.v.is_sell
          => sell_amount.v = order.v.amount
    /\ buy_amount.set /\ ~order.v.is_sell
          => buy_amount.v = order.v.amount
    /\ sell_amount.set /\ ~order.v.is_sell
          => sell_amount.v = WadMul(order.v.amount, order.v.price)

\* both amounts of a sell order of 0.333333333 at 0.333333333 have been read:
\* the product 0.111111110888888889 differs from the amount
C1_Witness ==
    /\ buy_amount.set
    /\ sell_amount.set
    /\ order.v.is_sell
    /\ order.v.amount = WadFromNumber(Num(333333333, 9))
    /\ buy_amount.v = <<889, 888, 888, 110, 111, 111>>
    /\ sell_amount.v # buy_amount.v

\* C2: a keyed and a positional record of the same trade map to Trades equal in
\* order id, timestamp, pair, side, price and amount; the positional one has
\* no trade id.
C2_PathsAgree ==
    keyed.set /\ positional.set =>
        /\ keyed.v.order_id = positional.v.order_id
        /\ keyed.v.timestamp = positional.v.timestamp
        /\ keyed.v.pair = positional.v.pair
        /\ keyed.v.is_sell = positional.v.is_sell
        /\ keyed.v.price = positional.v.price
        /\ keyed.v.amount = positional.v.amount
        /\ positional.v.trade_id = PyNone
        /\ Trade_eq(keyed.v, positional.v) <=> keyed.v.trade_id = PyNone

\* a sell of 1544999.5 ms has been mapped along both paths: second 1544 on
\* both, a trade id on the keyed path only
C2_Witness ==
    /\ keyed.set
    /\ positional.set
    /\ underlying.createdAt = Num(15449995, 1)
    /\ keyed.v.timestamp = 1544
    /\ keyed.v.is_sell
    /\ keyed.v.trade_id = PyInt(7)
    /\ ~Trade_eq(keyed.v, positional.v)

\* C3: cancel_order never raises on what the remote cancel call did: it
\* returns False when the call raised and True when it succeeded.
C3_CancelReturnsStatus ==
    op = "cancel_order" /\ requests # <<>> =>
        /\ response.kind \in {"ok", "raise"}
        /\ outcome.kind = "return"
        /\ outcome.value = (response.kind = "ok")

\* the remote cancel call raised and cancel_order returned False
C3_Witness ==
    /\ op = "cancel_order"
    /\ response.kind = "raise"
    /\ outcome.kind = "return"
    /\ outcome.value = FALSE

\* the assets the precision table is claimed to hold
ClaimedAssets == {ETH, USDT, MKR, BTC, DAI}

\* C4: place_order on a pair whose base or quote asset is not in the precision
\* table fails, with KeyError when the pair has a base and a quote, and has
\* made no request to the client.
C4_UnknownAssetFailsFirst ==
    op = "place_order" /\ IsStr(args.pair) =>
        LET coins == Split(args.pair.v)
        IN  (Len(coins) < 2 \/ coins[1] \notin ClaimedAssets
                            \/ coins[2] \notin ClaimedAssets) =>
                /\ outcome.kind = "raise"
                /\ Len(coins) >= 2 => outcome.error = "KeyError"
                /\ requests = <<>>
                /\ response = NoResponse

\* place_order on XRP-DAI, whose quote has a precision and whose base has none
C4_Witness ==
    /\ op = "place_order"
    /\ args.pair = PyStr(PairOf(XRP, DAI))
    /\ outcome.kind = "raise"
    /\ outcome.error = "KeyError"
    /\ requests = <<>>

\* C5: get_all_trades with a page number other than 1 fails with an
\* AssertionError and has made no request to the client.
C5_OnlyFirstPage ==
    op = "get_all_trades" /\ args.page_number # PyInt(1) =>
        /\ outcome.kind = "raise"
        /\ outcome.error = "AssertionError"
        /\ requests = <<>>
        /\ response = NoResponse

\* get_all_trades("ETH-DAI", 2) has failed
C5_Witness ==
    /\ op = "get_all_trades"
    /\ args.pair = PyStr(PairOf(ETH, DAI))
    /\ args.page_number = PyInt(2)
    /\ outcome.kind = "raise"
    /\ outcome.error = "AssertionError"

\* C6: for an active-orders answer with sell list S and buy list B, get_orders
\* returns |S| + |B| Orders: first those of S, as sells and in S's order, then
\* those of B, as buys and in B's order.
C6_SellsThenBuys ==
    op = "get_orders" /\ response.kind = "ok" =>
        LET S == response.value.SELL
            B == response.value.BUY
            r == outcome.value
            mapped(o, e, is_sell) ==
                /\ o.order_id = e[6]
                /\ o.pair = args.pair.v
                /\ o.is_sell = is_sell
                /\ o.price = WadFromNumber(e[3])
                /\ o.amount = WadFromNumber(e[4])
        IN  /\ outcome.kind = "return"
            /\ Len(r) = Len(S) + Len(B)
            /\ \A i \in 1..Len(S) : mapped(r[i], S[i], TRUE)
            /\ \A i \in 1..Len(B) : mapped(r[Len(S) + i], B[i], FALSE)

\* two sell entries and three buy entries came back, the two sells different
C6_Witness ==
    /\ op = "get_orders"
    /\ response.kind = "ok"
    /\ Len(response.value.SELL) = 2
    /\ Len(response.value.BUY) = 3
    /\ response.value.SELL[1] # response.value.SELL[2]
    /\ Len(outcome.value) = 5
    /\ outcome.value[2].is_sell
    /\ ~outcome.value[3].is_sell

\* C7: a method other than cancel_order whose remote call raised has raised
\* that same error, and no method makes more than one request per call.
C7_RemoteErrorPropagates ==
    /\ Len(requests) <= 1
    /\ op \notin {"idle", "cancel_order"} /\ response.kind = "raise" =>
          /\ outcome.kind = "raise"
          /\ outcome.error = response.error

\* the remote create-order call raised and place_order raised the same error
C7_Witness ==
    /\ op = "place_order"
    /\ Len(requests) = 1
    /\ response = RemoteRaise("KucoinAPIException")
    /\ outcome = Raise("KucoinAPIException")

\* C8: get_trades(pair, page_number) asks the client for page page_number - 1
\* with 100 entries, and returns the Trade of each record of 'datas', mapped
\* by from_dict, in the order of 'datas'.
C8_TradesPage ==
    op = "get_trades" /\ IsStr(args.pair) /\ IsInt(args.page_number) =>
        /\ requests = <<Request("get_symbol_dealt_orders",
                                <<args.pair, args.page_number.v - 1, 100>>)>>
        /\ response.kind = "ok" =>
              /\ outcome.kind = "return"
              /\ Len(outcome.value) = Len(response.value.datas)
              /\ \A i \in 1..Len(response.value.datas) :
                    outcome.value[i] =
                        Trade_from_dict(args.pair.v, response.value.datas[i])

\* get_trades with page_number 1 asked for page 0 and mapped two different
\* records
C8_Witness ==
    /\ op = "get_trades"
    /\ args.page_number = PyInt(1)
    /\ requests[1].args[2] = 0
    /\ response.kind = "ok"
    /\ Len(outcome.value) = 2
    /\ outcome.value[1].trade_id = PyInt(7)
    /\ outcome.value[2].trade_id = PyInt(8)

\* the decimal places the precision table is claimed to give each asset
ClaimedPlaces(coin) ==
    CASE coin = ETH -> 7
      [] coin = USDT -> 6
      [] coin = MKR -> 4
      [] coin = BTC -> 7
      [] coin = DAI -> 4

\* C9: place_order on "BASE-QUOTE" submits the price in the decimal places of
\* QUOTE and the amount in the decimal places of BASE, and returns the
\* orderOid of the exchange's answer.
C9_PlacedPrecision ==
    op = "place_order" /\ requests # <<>> =>
        LET coins == Split(args.pair.v)
            sent == requests[1].args
        IN  /\ requests[1].method = "create_order"
            /\ sent[1] = args.pair
            /\ sent[2] = IF args.is_sell THEN "SELL" ELSE "BUY"
            /\ sent[3].places = ClaimedPlaces(coins[2])
            /\ sent[3] \in FormatFixed(args.price, ClaimedPlaces(coins[2]))
            /\ sent[4].places = ClaimedPlaces(coins[1])
            /\ sent[4] \in FormatFixed(args.amount, ClaimedPlaces(coins[1]))
            /\ response.kind = "ok" =>
                  /\ outcome.kind = "return"
                  /\ outcome.value = response.value.orderOid

\* a sell of 0.99999999 ETH at 80.2222222 DAI was submitted as 1.0000000 at
\* 80.2222 and the exchange's order id returned
C9_Witness ==
    /\ op = "place_order"
    /\ args.pair = PyStr(PairOf(ETH, DAI))
    /\ args.price = WadFromNumber(Num(802222222, 7))
    /\ args.amount = WadFromNumber(Num(99999999, 8))
    /\ requests[1].args[3] = Fixed(80, 2222, 4)
    /\ requests[1].args[4] = Fixed(1, 0, 7)
    /\ outcome = Return(PyStr(<<"o", "2">>))

\* C10, as claimed: get_orders called with the empty string reports a
\* precondition violation instead of returning a result.
C10_EmptyPairFails ==
    op = "get_orders" /\ IsStr(args.pair) /\ args.pair.v = <<>> =>
        /\ outcome.kind = "raise"
        /\ outcome.error = "AssertionError"

\* C10, amended: get_orders fails before any request to the client, with an
\* AssertionError, exactly when pair is no str; called with the empty string
\* it asks the client for the active orders of the empty pair and returns the
\* Orders mapped from the answer, or raises the client's error.
C10_OnlyTypeChecked ==
    op = "get_orders" =>
        /\ requests = <<>> <=> ~IsStr(args.pair)
        /\ requests = <<>> => outcome = Raise("AssertionError")
        /\ IsStr(args.pair) /\ args.pair.v = <<>> =>
              /\ requests = <<Request("get_active_orders", <<args.pair>>)>>
              /\ response.kind = "ok" =>
                    /\ outcome.kind = "return"
                    /\ Len(outcome.value) =
                          Len(response.value.SELL) + Len(response.value.BUY)
              /\ response.kind = "raise" => outcome = Raise(response.error)

\* get_orders("") has returned an order
C10_Witness ==
    /\ op = "get_orders"
    /\ IsStr(args.pair)
    /\ args.pair.v = <<>>
    /\ outcome.kind = "return"
    /\ Len(outcome.value) >= 1

====
